---- MODULE Spec2Model ----
(***************************************************************************)
(* Bounded, time-aware stores of the repository:                           *)
(*   MemoryCache   (src/storage/cache.py): LRU cache with per-entry TTL,   *)
(*                 one lock and a background cleanup thread;               *)
(*   WorkingMemory (src/memory/working/working_memory.py): priority        *)
(*                 ordered working set with per-item expiry;               *)
(*   MemoryIndex   (src/processing/memory_indexer.py): vectors of a fixed  *)
(*                 dimension with their ids and metadata.                  *)
(* Optional values are sequences: <<>> is Python's None, <<x>> is x.       *)
(***************************************************************************)
EXTENDS Integers, Sequences, FiniteSets, TLC

\* ----------------------------------------------------------------- bounds
MaxTime == 2       \* the clock runs from 0 to MaxTime
MaxCapacity == 2   \* capacities 0..MaxCapacity are constructed
MaxAccess == 1     \* calls that would raise access_count above it are not made
MaxStale == 1      \* add_item is not called with more surplus pairs in priority_queue
NThreads == 2      \* caller threads 1..NThreads
CleanupInterval == 2   \* cleanup_interval, in ticks of the clock
MaxSweepTime == 4  \* the clock of the cleanup thread's specification stops there
MaxDimension == 2  \* indexes of dimension 1..MaxDimension are constructed
MaxVectorLen == 3  \* vectors of length 0..MaxVectorLen are passed to add_memory
MaxVectors == 2    \* add_memory is not called on an index that holds as many

None == <<>>
\* keys of the cache and item ids of the working memory, in string order
KeyOrder == <<"a", "b", "c">>
Keys == {KeyOrder[i] : i \in 1..Len(KeyOrder)}
Values == {"v1"}
\* ttl arguments of put: none, a ttl in the future, a ttl in the past
PutTTLs == {None, <<1>>, <<-1>>}
\* new_ttl arguments of update_ttl
UpdateTTLs == {None}
\* priority and duration arguments of add_item; new_priority of update_priority
Priorities == {1, 3, 5}
Durations == {None, <<1>>}
\* memory_id, vector and metadata arguments of add_memory
MemoryIds == {"m1", "m2"}
Vectors == UNION {[1..n -> {0, 1}] : n \in 0..MaxVectorLen}
Metadata == {"md1", "md2"}

VARIABLES
  now,             \* the value datetime.now() returns
  instance,        \* the class of the store constructed
  capacity,        \* self.capacity of the store
  cache,           \* MemoryCache.cache: the OrderedDict, first item first
  items,           \* WorkingMemory.items: item_id -> WorkingMemoryItem
  priority_queue,  \* WorkingMemory.priority_queue: pairs <<-priority, item_id>>
  last,            \* the last completed call: its name, key and result
  lock,            \* MemoryCache.lock: TRUE while a thread holds it
  pc,              \* where each caller thread is
  call,            \* the call each caller thread is in: method, arguments, locals
  sweeper,         \* where the cleanup thread is
  wake_at,         \* when the time.sleep of the cleanup thread returns
  dimension,       \* MemoryIndex.dimension
  index,           \* MemoryIndex.index: the vectors added, in order
  id_to_vector,    \* MemoryIndex.id_to_vector
  id_to_metadata   \* MemoryIndex.id_to_metadata

threadVars == <<lock, pc, call, sweeper, wake_at>>

indexVars == <<dimension, index, id_to_vector, id_to_metadata>>

vars ==
  <<now, instance, capacity, cache, items, priority_queue, last, threadVars,
    indexVars>>

\* The record of a completed call: the method, its key argument, the value
\* returned, the return statement taken, the keys removed to make room, the
\* keys removed as expired, the exception raised.
NoCall ==
  [op |-> "init", key |-> "", ret |-> None, path |-> "", evicted |-> {},
   expired |-> {}, raised |-> "none"]

Completed(op, key) == [NoCall EXCEPT !.op = op, !.key = key]

\* ------------------------------------------------------------- CacheEntry
\* `if ttl`: None and 0 are both falsy.
Truthy(ttl) == ttl # None /\ ttl[1] # 0

\* CacheEntry.__init__ at time t. The field ttl keeps the constructor's
\* argument (it is not stored by the code; no operation reads it).
CacheEntry(data, ttl, t) ==
  [data |-> data,
   created_at |-> t,
   last_accessed |-> t,
   access_count |-> 0,
   expires_at |-> IF Truthy(ttl) THEN <<t + ttl[1]>> ELSE None,
   ttl |-> ttl]

\* access without `self.access_count += 1`
access_time_only(e, t) == [e EXCEPT !.last_accessed = t]

access(e, t) == [e EXCEPT !.last_accessed = t, !.access_count = @ + 1]

\* is_expired with `>=` for `>`
is_expired_inclusive(e, t) ==
  IF e.expires_at = None THEN FALSE ELSE t >= e.expires_at[1]

is_expired(e, t) ==
  IF e.expires_at = None THEN FALSE ELSE t > e.expires_at[1]

\* ------------------------------------------------------------ OrderedDict
\* An OrderedDict is a sequence of [key, entry] items without repeated keys.
KeysOf(c) == {c[i].key : i \in 1..Len(c)}

Contains(c, k) == k \in KeysOf(c)

IndexOf(c, k) == CHOOSE i \in 1..Len(c) : c[i].key = k

EntryOf(c, k) == c[IndexOf(c, k)].entry

DelKey(c, k) == SelectSeq(c, LAMBDA it : it.key # k)

MoveToEnd(c, k) == Append(DelKey(c, k), c[IndexOf(c, k)])

SetEntry(c, k, e) ==
  IF Contains(c, k)
    THEN [c EXCEPT ![IndexOf(c, k)].entry = e]
    ELSE Append(c, [key |-> k, entry |-> e])

\* ------------------------------------------------------------ MemoryCache
\* the loop of put with `>` for `>=`
RECURSIVE EvictOldestOffByOne(_, _, _)
EvictOldestOffByOne(c, cap, popped) ==
  IF Len(c) > cap
    THEN EvictOldestOffByOne(Tail(c), cap, popped \cup {Head(c).key})
    ELSE [cache |-> c, evicted |-> popped, raised |-> "none"]

\* The loop of put: `while len(cache) >= capacity: cache.popitem(last=False)`.
\* popitem on an empty OrderedDict raises KeyError (capacity <= 0).
RECURSIVE EvictOldest(_, _, _)
EvictOldest(c, cap, popped) ==
  IF Len(c) >= cap
    THEN IF c = <<>>
           THEN [cache |-> c, evicted |-> popped, raised |-> "KeyError"]
           ELSE EvictOldest(Tail(c), cap, popped \cup {Head(c).key})
    ELSE [cache |-> c, evicted |-> popped, raised |-> "none"]

\* put that, for a key that is present, assigns the value and the expiry to
\* the stored entry instead of storing a new CacheEntry
PutResultInPlace(c, cap, k, v, ttl, t) ==
  LET c1 == IF Contains(c, k) THEN DelKey(c, k) ELSE c
      r == EvictOldest(c1, cap, {})
      new == CacheEntry(v, ttl, t)
      e == IF Contains(c, k)
             THEN [EntryOf(c, k) EXCEPT !.data = v, !.ttl = ttl,
                                        !.expires_at = new.expires_at]
             ELSE new
  IN IF r.raised # "none"
       THEN r
       ELSE [r EXCEPT !.cache = SetEntry(r.cache, k, e)]

PutResult(c, cap, k, v, ttl, t) ==
  LET c1 == IF Contains(c, k) THEN DelKey(c, k) ELSE c
      r == EvictOldest(c1, cap, {})
  IN IF r.raised # "none"
       THEN r
       ELSE [r EXCEPT !.cache = SetEntry(r.cache, k, CacheEntry(v, ttl, t))]

Put(k, v, ttl) ==
  /\ instance = "MemoryCache"
  /\ LET r == PutResult(cache, capacity, k, v, ttl, now)
     IN /\ cache' = r.cache
        /\ last' = [Completed("put", k) EXCEPT
                     !.path = IF Contains(cache, k) THEN "present" ELSE "absent",
                     !.evicted = r.evicted,
                     !.raised = r.raised]
  /\ UNCHANGED <<now, instance, indexVars, capacity, items, priority_queue, threadVars>>

\* get without move_to_end
GetResultNoMove(c, k, t) ==
  IF ~Contains(c, k)
    THEN [cache |-> c, ret |-> None, path |-> "absent"]
    ELSE IF is_expired(EntryOf(c, k), t)
      THEN [cache |-> DelKey(c, k), ret |-> None, path |-> "expired"]
      ELSE [cache |-> SetEntry(c, k, access(EntryOf(c, k), t)),
            ret |-> <<EntryOf(c, k).data>>, path |-> "live"]

GetResult(c, k, t) ==
  IF ~Contains(c, k)
    THEN [cache |-> c, ret |-> None, path |-> "absent"]
    ELSE IF is_expired(EntryOf(c, k), t)
      THEN [cache |-> DelKey(c, k), ret |-> None, path |-> "expired"]
      ELSE [cache |-> MoveToEnd(SetEntry(c, k, access(EntryOf(c, k), t)), k),
            ret |-> <<EntryOf(c, k).data>>, path |-> "live"]

\* A call that reads or updates the entry of k to the access_count bound.
CanAccess(c, k) == Contains(c, k) => EntryOf(c, k).access_count < MaxAccess

Get(k) ==
  /\ instance = "MemoryCache"
  /\ CanAccess(cache, k)
  /\ LET r == GetResult(cache, k, now)
     IN /\ cache' = r.cache
        /\ last' = [Completed("get", k) EXCEPT !.ret = r.ret,
                                                  !.path = r.path]
  /\ UNCHANGED <<now, instance, indexVars, capacity, items, priority_queue, threadVars>>

\* touch without move_to_end
TouchResultNoMove(c, k, t) ==
  IF ~Contains(c, k)
    THEN [cache |-> c, ret |-> <<FALSE>>, path |-> "absent"]
    ELSE IF is_expired(EntryOf(c, k), t)
      THEN [cache |-> DelKey(c, k), ret |-> <<FALSE>>, path |-> "expired"]
      ELSE [cache |-> SetEntry(c, k, access(EntryOf(c, k), t)),
            ret |-> <<TRUE>>, path |-> "live"]

TouchResult(c, k, t) ==
  IF ~Contains(c, k)
    THEN [cache |-> c, ret |-> <<FALSE>>, path |-> "absent"]
    ELSE IF is_expired(EntryOf(c, k), t)
      THEN [cache |-> DelKey(c, k), ret |-> <<FALSE>>, path |-> "expired"]
      ELSE [cache |-> MoveToEnd(SetEntry(c, k, access(EntryOf(c, k), t)), k),
            ret |-> <<TRUE>>, path |-> "live"]

Touch(k) ==
  /\ instance = "MemoryCache"
  /\ CanAccess(cache, k)
  /\ LET r == TouchResult(cache, k, now)
     IN /\ cache' = r.cache
        /\ last' = [Completed("touch", k) EXCEPT !.ret = r.ret,
                                                    !.path = r.path]
  /\ UNCHANGED <<now, instance, indexVars, capacity, items, priority_queue, threadVars>>

\* delete with popitem(last=False) for `del self.cache[key]`
DeleteResultPopsFirst(c, k) ==
  IF Contains(c, k)
    THEN [cache |-> Tail(c), ret |-> <<TRUE>>]
    ELSE [cache |-> c, ret |-> <<FALSE>>]

DeleteResult(c, k) ==
  IF Contains(c, k)
    THEN [cache |-> DelKey(c, k), ret |-> <<TRUE>>]
    ELSE [cache |-> c, ret |-> <<FALSE>>]

Delete(k) ==
  /\ instance = "MemoryCache"
  /\ LET r == DeleteResult(cache, k)
     IN /\ cache' = r.cache
        /\ last' = [Completed("delete", k) EXCEPT !.ret = r.ret]
  /\ UNCHANGED <<now, instance, indexVars, capacity, items, priority_queue, threadVars>>

Clear ==
  /\ instance = "MemoryCache"
  /\ cache' = <<>>
  /\ last' = Completed("clear", "")
  /\ UNCHANGED <<now, instance, indexVars, capacity, items, priority_queue, threadVars>>

\* update_ttl with `if new_ttl` for `if new_ttl is None`
UpdateTtlResultTruthy(c, k, new_ttl, t) ==
  IF ~Contains(c, k)
    THEN [cache |-> c, ret |-> <<FALSE>>]
    ELSE [cache |-> SetEntry(c, k,
                      [EntryOf(c, k) EXCEPT !.expires_at =
                         IF Truthy(new_ttl) THEN <<t + new_ttl[1]>> ELSE None]),
          ret |-> <<TRUE>>]

UpdateTtlResult(c, k, new_ttl, t) ==
  IF ~Contains(c, k)
    THEN [cache |-> c, ret |-> <<FALSE>>]
    ELSE [cache |-> SetEntry(c, k,
                      [EntryOf(c, k) EXCEPT !.expires_at =
                         IF new_ttl = None THEN None ELSE <<t + new_ttl[1]>>]),
          ret |-> <<TRUE>>]

UpdateTtl(k, new_ttl) ==
  /\ instance = "MemoryCache"
  /\ LET r == UpdateTtlResult(cache, k, new_ttl, now)
     IN /\ cache' = r.cache
        /\ last' = [Completed("update_ttl", k) EXCEPT !.ret = r.ret]
  /\ UNCHANGED <<now, instance, indexVars, capacity, items, priority_queue, threadVars>>

\* _cleanup_expired with the test of the filter negated
CleanupResultNegated(c, t) == SelectSeq(c, LAMBDA it : is_expired(it.entry, t))

\* _cleanup_expired that stops after the first expired entry
CleanupResultFirstOnly(c, t) ==
  IF \E i \in 1..Len(c) : is_expired(c[i].entry, t)
    THEN LET first == CHOOSE i \in 1..Len(c) :
                        /\ is_expired(c[i].entry, t)
                        /\ \A j \in 1..(i - 1) : ~is_expired(c[j].entry, t)
         IN DelKey(c, c[first].key)
    ELSE c

\* _cleanup_expired: one tick of the cleanup thread.
CleanupResult(c, t) == SelectSeq(c, LAMBDA it : ~is_expired(it.entry, t))

CleanupExpired ==
  /\ instance = "MemoryCache"
  /\ cache' = CleanupResult(cache, now)
  /\ last' = [Completed("cleanup", "") EXCEPT
               !.expired = KeysOf(cache) \ KeysOf(cache')]
  /\ UNCHANGED <<now, instance, indexVars, capacity, items, priority_queue, threadVars>>

\* The clock advances between calls.
Advance ==
  /\ now < MaxTime
  /\ now' = now + 1
  /\ UNCHANGED <<instance, indexVars, capacity, cache, items, priority_queue, last,
               threadVars>>


\* get_stats. A quotient x / y of the code is kept as the pair <<x, y>>;
\* total_items / capacity raises ZeroDivisionError when capacity is 0.
RECURSIVE SumAccess(_)
SumAccess(c) ==
  IF c = <<>> THEN 0 ELSE Head(c).entry.access_count + SumAccess(Tail(c))

MaxAccessCount(c) ==
  IF c = <<>> THEN 0
  ELSE CHOOSE m \in {c[i].entry.access_count : i \in 1..Len(c)} :
         \A i \in 1..Len(c) : c[i].entry.access_count <= m

get_stats(c, cap, t) ==
  [total_items |-> Len(c),
   expired_items |-> Cardinality({i \in 1..Len(c) : is_expired(c[i].entry, t)}),
   capacity |-> cap,
   usage_percent |-> <<Len(c) * 100, cap>>,
   avg_access_count |-> IF Len(c) > 0 THEN <<SumAccess(c), Len(c)>> ELSE <<0, 1>>,
   max_access_count |-> MaxAccessCount(c)]

GetStats ==
  /\ instance = "MemoryCache"
  /\ last' = IF capacity = 0
              THEN [Completed("get_stats", "") EXCEPT
                      !.raised = "ZeroDivisionError"]
              ELSE [Completed("get_stats", "") EXCEPT
                      !.ret = <<get_stats(cache, capacity, now)>>]
  /\ UNCHANGED <<now, instance, indexVars, capacity, cache, items, priority_queue, threadVars>>

\* get_keys: the keys of the entries that are not expired, in cache order.
get_keys(c, t) ==
  LET live == SelectSeq(c, LAMBDA it : ~is_expired(it.entry, t))
  IN [i \in 1..Len(live) |-> live[i].key]

GetKeys ==
  /\ instance = "MemoryCache"
  /\ last' = [Completed("get_keys", "") EXCEPT !.ret = get_keys(cache, now)]
  /\ UNCHANGED <<now, instance, indexVars, capacity, cache, items, priority_queue, threadVars>>

\* ---------------------------------------------------------- WorkingMemory
\* `if duration`: None and timedelta(0) are both falsy.
WorkingMemoryItem(data, priority, duration, t) ==
  [data |-> data,
   priority |-> priority,
   created_at |-> t,
   expires_at |-> IF Truthy(duration) THEN <<t + duration[1]>> ELSE None,
   access_count |-> 0,
   last_accessed |-> t]

\* `item.expires_at and now > item.expires_at`
item_expired(it, t) ==
  IF it.expires_at = None THEN FALSE ELSE t > it.expires_at[1]

\* Python's order of the tuples (-priority, item_id): by the number, then by
\* the string.
Rank(k) == CHOOSE i \in 1..Len(KeyOrder) : KeyOrder[i] = k

TupleLess(x, y) == x[1] < y[1] \/ (x[1] = y[1] /\ Rank(x[2]) < Rank(y[2]))

\* heapq keeps the list a min-heap: heappop returns a least tuple whatever the
\* layout. The list is held least first.
RECURSIVE heappush(_, _)
heappush(q, x) ==
  IF q = <<>> THEN <<x>>
  ELSE IF TupleLess(x, Head(q)) THEN <<x>> \o q
  ELSE <<Head(q)>> \o heappush(Tail(q), x)

RECURSIVE heapify(_)
heapify(S) ==
  IF S = {} THEN <<>>
  ELSE LET m == CHOOSE x \in S : \A y \in S : x = y \/ TupleLess(x, y)
       IN <<m>> \o heapify(S \ {m})

Restrict(f, S) == [x \in S |-> f[x]]

\* the empty dict
NoItems == [x \in {} |-> None]

\* _rebuild_priority_queue
rebuild_priority_queue(its) ==
  heapify({<<0 - its[id].priority, id>> : id \in DOMAIN its})

\* _remove_item on the state st = [items, priority_queue]
remove_item(st, id) ==
  IF id \in DOMAIN st.items
    THEN LET its == Restrict(st.items, DOMAIN st.items \ {id})
         IN [st EXCEPT !.items = its,
                       !.priority_queue = rebuild_priority_queue(its)]
    ELSE st

\* The loop of _evict_items: `while len(items) >= capacity:` heappop, then
\* _remove_item. heappop on an empty list raises IndexError.
RECURSIVE EvictByPriority(_, _)
EvictByPriority(st, cap) ==
  IF Cardinality(DOMAIN st.items) >= cap
    THEN IF st.priority_queue = <<>>
           THEN [st EXCEPT !.raised = "IndexError"]
           ELSE LET x == Head(st.priority_queue)
                    popped == [st EXCEPT !.priority_queue = Tail(@),
                                         !.evicted = @ \cup {x[2]}]
                IN EvictByPriority(remove_item(popped, x[2]), cap)
    ELSE st

\* _evict_items without the removal of the expired items
evict_items_by_priority_only(st, cap, t) == EvictByPriority(st, cap)

\* _evict_items at time t
evict_items(st, cap, t) ==
  LET expired == {id \in DOMAIN st.items : item_expired(st.items[id], t)}
      its == Restrict(st.items, DOMAIN st.items \ expired)
      st1 == IF expired = {} THEN st
             ELSE [st EXCEPT !.items = its,
                             !.priority_queue = rebuild_priority_queue(its),
                             !.expired = expired]
  IN EvictByPriority(st1, cap)

AddItemResult(its, q, cap, id, data, priority, duration, t) ==
  LET st == [items |-> its, priority_queue |-> q, evicted |-> {},
             expired |-> {}, raised |-> "none"]
      st1 == IF Cardinality(DOMAIN its) >= cap
               THEN evict_items(st, cap, t) ELSE st
  IN IF st1.raised # "none"
       THEN st1
       ELSE [st1 EXCEPT
               !.items = [x \in DOMAIN st1.items \cup {id} |->
                            IF x = id
                              THEN WorkingMemoryItem(data, priority, duration, t)
                              ELSE st1.items[x]],
               !.priority_queue = heappush(@, <<0 - priority, id>>)]

AddItem(id, data, priority, duration) ==
  /\ instance = "WorkingMemory"
  /\ Len(priority_queue) - Cardinality(DOMAIN items) < MaxStale
  /\ LET r == AddItemResult(items, priority_queue, capacity, id, data,
                            priority, duration, now)
     IN /\ items' = r.items
        /\ priority_queue' = r.priority_queue
        /\ last' = [Completed("add_item", id) EXCEPT !.evicted = r.evicted,
                                                       !.expired = r.expired,
                                                       !.raised = r.raised]
  /\ UNCHANGED <<now, instance, indexVars, capacity, cache, threadVars>>

GetItemResult(its, q, id, t) ==
  LET st == [items |-> its, priority_queue |-> q, ret |-> None,
             path |-> "absent"]
  IN IF id \notin DOMAIN its
       THEN st
       ELSE IF item_expired(its[id], t)
         THEN remove_item([st EXCEPT !.path = "expired"], id)
         ELSE [st EXCEPT !.items[id].access_count = @ + 1,
                         !.items[id].last_accessed = t,
                         !.ret = <<its[id].data>>,
                         !.path = "live"]

GetItem(id) ==
  /\ instance = "WorkingMemory"
  /\ id \in DOMAIN items => items[id].access_count < MaxAccess
  /\ LET r == GetItemResult(items, priority_queue, id, now)
     IN /\ items' = r.items
        /\ priority_queue' = r.priority_queue
        /\ last' = [Completed("get_item", id) EXCEPT !.ret = r.ret,
                                                       !.path = r.path]
  /\ UNCHANGED <<now, instance, indexVars, capacity, cache, threadVars>>

UpdatePriorityResult(its, q, id, new_priority) ==
  IF id \in DOMAIN its
    THEN LET its1 == [its EXCEPT ![id].priority = new_priority]
         IN [items |-> its1, priority_queue |-> rebuild_priority_queue(its1)]
    ELSE [items |-> its, priority_queue |-> q]

UpdatePriority(id, new_priority) ==
  /\ instance = "WorkingMemory"
  /\ LET r == UpdatePriorityResult(items, priority_queue, id, new_priority)
     IN /\ items' = r.items
        /\ priority_queue' = r.priority_queue
        /\ last' = Completed("update_priority", id)
  /\ UNCHANGED <<now, instance, indexVars, capacity, cache, threadVars>>

\* ------------------------------------------------------------ MemoryIndex
\* A vector is the sequence of its components: vector.shape[0] is its
\* length. faiss.IndexFlatL2 keeps the vectors added, in the order of the
\* calls. The dicts are functions; a metadata dict is taken as a whole.
\* no MemoryIndex constructed
IndexAbsent ==
  /\ dimension = 0
  /\ index = <<>>
  /\ id_to_vector = NoItems
  /\ id_to_metadata = NoItems

\* d[k] = v
DictSet(d, k, v) == [x \in DOMAIN d \cup {k} |-> IF x = k THEN v ELSE d[x]]

\* add_memory with index.add ahead of the test of the dimension
AddMemoryResultAddsFirst(dim, idx, itv, itm, memory_id, vector, metadata) ==
  IF Len(vector) # dim
    THEN [raised |-> "ValueError", index |-> Append(idx, vector),
          id_to_vector |-> itv, id_to_metadata |-> itm]
    ELSE [raised |-> "none", index |-> Append(idx, vector),
          id_to_vector |-> DictSet(itv, memory_id, vector),
          id_to_metadata |-> DictSet(itm, memory_id, metadata)]

\* add_memory: the exception raised and the index it leaves
AddMemoryResult(dim, idx, itv, itm, memory_id, vector, metadata) ==
  IF Len(vector) # dim
    THEN [raised |-> "ValueError", index |-> idx,
          id_to_vector |-> itv, id_to_metadata |-> itm]
    ELSE [raised |-> "none", index |-> Append(idx, vector),
          id_to_vector |-> DictSet(itv, memory_id, vector),
          id_to_metadata |-> DictSet(itm, memory_id, metadata)]

AddMemory(memory_id, vector, metadata) ==
  /\ instance = "MemoryIndex"
  /\ Len(vector) = dimension => Len(index) < MaxVectors
  /\ LET r == AddMemoryResult(dimension, index, id_to_vector, id_to_metadata,
                              memory_id, vector, metadata)
     IN /\ index' = r.index
        /\ id_to_vector' = r.id_to_vector
        /\ id_to_metadata' = r.id_to_metadata
        /\ last' = [Completed("add_memory", memory_id)
                      EXCEPT !.raised = r.raised]
  /\ UNCHANGED <<now, instance, capacity, cache, items, priority_queue,
                 threadVars, dimension>>

\* ------------------------------------------------------ sequential callers
Threads == 1..NThreads

\* The arguments of a call and its local: the keys it has removed so far.
Args(op, key, value, ttl, priority) ==
  [op |-> op, key |-> key, value |-> value, ttl |-> ttl,
   priority |-> priority, popped |-> {}]

NoArgs == Args("", "", "", None, 0)

\* No thread is in a call; the cleanup thread, started by __init__, is in its
\* first sleep.
ThreadsIdle ==
  /\ lock = FALSE
  /\ pc = [t \in Threads |-> "idle"]
  /\ call = [t \in Threads |-> NoArgs]
  /\ sweeper = "sleep"
  /\ wake_at = CleanupInterval

\* __init__ of either class: capacity is stored unchecked; the store is empty.
Init ==
  /\ now = 0
  /\ instance \in {"MemoryCache", "WorkingMemory"}
  /\ capacity \in 0..MaxCapacity
  /\ cache = <<>>
  /\ items = NoItems
  /\ priority_queue = <<>>
  /\ last = NoCall
  /\ IndexAbsent
  /\ ThreadsIdle

Next ==
  \/ \E k \in Keys, v \in Values, ttl \in PutTTLs : Put(k, v, ttl)
  \/ \E k \in Keys : Get(k)
  \/ \E k \in Keys : Touch(k)
  \/ \E k \in Keys : Delete(k)
  \/ Clear
  \/ \E k \in Keys, ttl \in UpdateTTLs : UpdateTtl(k, ttl)
  \/ GetStats
  \/ GetKeys
  \/ CleanupExpired
  \/ \E id \in Keys, v \in Values, p \in Priorities, d \in Durations :
       AddItem(id, v, p, d)
  \/ \E id \in Keys : GetItem(id)
  \/ \E id \in Keys, p \in Priorities : UpdatePriority(id, p)
  \/ Advance

Spec == Init /\ [][Next]_vars

\* MemoryIndex(dimension), empty, and its add_memory calls one after another
InitIndex ==
  /\ now = 0
  /\ instance = "MemoryIndex"
  /\ capacity = 0
  /\ cache = <<>>
  /\ items = NoItems
  /\ priority_queue = <<>>
  /\ last = NoCall
  /\ dimension \in 1..MaxDimension
  /\ index = <<>>
  /\ id_to_vector = NoItems
  /\ id_to_metadata = NoItems
  /\ ThreadsIdle

NextIndex ==
  \E memory_id \in MemoryIds, vector \in Vectors, metadata \in Metadata :
    AddMemory(memory_id, vector, metadata)

SpecIndex == InitIndex /\ [][NextIndex]_vars

\* ------------------------------------------- MemoryCache, several threads
\* Every method body is `with self.lock:`. A thread enters a method, waits
\* for the lock, runs the body and releases the lock on leaving it. put is
\* followed statement by statement; the other bodies are one step each, as
\* nothing else runs while the lock is held. The arguments are drawn when the
\* lock is taken: they do not depend on the state.
\* threading.Lock.acquire ignoring that the lock is held
LockIgnored(l) == TRUE

LockFree(l) == l = FALSE

CacheCalls ==
  {Args("put", k, v, ttl, 0) : k \in Keys, v \in Values, ttl \in {None, <<-1>>}}
    \cup {Args(op, k, "", None, 0) :
            op \in {"get", "touch", "delete"}, k \in Keys}
    \cup {Args("update_ttl", k, "", ttl, 0) : k \in Keys, ttl \in UpdateTTLs}
    \cup {Args(op, "", "", None, 0) : op \in {"get_stats", "get_keys"}}

Enter(t) ==
  /\ pc[t] \in {"idle", "returned", "raised"}
  /\ pc' = [pc EXCEPT ![t] = "acquire"]
  /\ UNCHANGED <<wake_at, now, instance, indexVars, capacity, cache, items, priority_queue, last,
                 lock, call, sweeper>>

Acquire(t, args) ==
  /\ instance = "MemoryCache"
  /\ pc[t] = "acquire"
  /\ LockFree(lock)
  /\ args.op \in {"get", "touch"} => CanAccess(cache, args.key)
  /\ lock' = TRUE
  /\ call' = [call EXCEPT ![t] = args]
  /\ pc' = [pc EXCEPT ![t] = IF args.op = "put" THEN "put_check" ELSE "body"]
  /\ UNCHANGED <<wake_at, now, instance, indexVars, capacity, cache, items, priority_queue, last,
                 sweeper>>

\* put, lines 61-62
PutCheck(t) ==
  /\ pc[t] = "put_check"
  /\ IF Contains(cache, call[t].key)
       THEN /\ cache' = DelKey(cache, call[t].key)
            /\ call' = [call EXCEPT ![t].popped = {call[t].key}]
       ELSE UNCHANGED <<cache, call>>
  /\ pc' = [pc EXCEPT ![t] = "put_loop"]
  /\ UNCHANGED <<wake_at, now, instance, indexVars, capacity, items, priority_queue, last, lock,
                 sweeper>>

\* put, lines 65-66: one test of the loop and, when it holds, one popitem.
\* KeyError leaves the `with` block, which releases the lock.
PutLoop(t) ==
  /\ pc[t] = "put_loop"
  /\ IF Len(cache) >= capacity
       THEN IF cache = <<>>
              THEN /\ call' = [call EXCEPT ![t] = NoArgs]
                   /\ pc' = [pc EXCEPT ![t] = "raised"]
                   /\ lock' = FALSE
                   /\ UNCHANGED cache
              ELSE /\ cache' = Tail(cache)
                   /\ call' = [call EXCEPT ![t].popped = @ \cup {Head(cache).key}]
                   /\ UNCHANGED <<pc, lock>>
       ELSE /\ pc' = [pc EXCEPT ![t] = "put_add"]
            /\ UNCHANGED <<cache, call, lock>>
  /\ UNCHANGED <<wake_at, now, instance, indexVars, capacity, items, priority_queue, last, sweeper>>

\* put, line 69, and the end of the `with` block
PutAdd(t) ==
  /\ pc[t] = "put_add"
  /\ cache' = SetEntry(cache, call[t].key,
                       CacheEntry(call[t].value, call[t].ttl, now))
  /\ lock' = FALSE
  /\ pc' = [pc EXCEPT ![t] = "returned"]
  /\ call' = [call EXCEPT ![t] = NoArgs]
  /\ UNCHANGED <<wake_at, now, instance, indexVars, capacity, items, priority_queue, last, sweeper>>

BodyResult(c, a, t) ==
  CASE a.op = "get" -> GetResult(c, a.key, t).cache
    [] a.op = "touch" -> TouchResult(c, a.key, t).cache
    [] a.op = "delete" -> DeleteResult(c, a.key).cache
    [] a.op = "update_ttl" -> UpdateTtlResult(c, a.key, a.ttl, t).cache
    [] a.op = "clear" -> <<>>
    [] OTHER -> c

\* a body that leaves the `with` block without releasing the lock
BodyKeepsLock(t) ==
  /\ pc[t] = "body"
  /\ cache' = BodyResult(cache, call[t], now)
  /\ pc' = [pc EXCEPT ![t] = "returned"]
  /\ call' = [call EXCEPT ![t] = NoArgs]
  /\ UNCHANGED <<wake_at, now, instance, indexVars, capacity, items,
                 priority_queue, last, sweeper, lock>>

\* the body of get, touch, delete, clear, update_ttl, get_stats or get_keys,
\* and the end of the `with` block, which releases the lock whether the body
\* returns or raises (get_stats divides by self.capacity)
Body(t) ==
  /\ pc[t] = "body"
  /\ cache' = BodyResult(cache, call[t], now)
  /\ lock' = FALSE
  /\ pc' = [pc EXCEPT ![t] = IF call[t].op = "get_stats" /\ capacity = 0
                               THEN "raised" ELSE "returned"]
  /\ call' = [call EXCEPT ![t] = NoArgs]
  /\ UNCHANGED <<wake_at, now, instance, indexVars, capacity, items, priority_queue, last, sweeper>>

\* _cleanup_loop: time.sleep returns, cleanup_interval after it was called
SweeperWake ==
  /\ instance = "MemoryCache"
  /\ sweeper = "sleep"
  /\ now >= wake_at
  /\ sweeper' = "acquire"
  /\ UNCHANGED <<wake_at, now, instance, indexVars, capacity, cache, items, priority_queue, last,
                 lock, pc, call>>

\* _cleanup_expired: `with self.lock:`
SweeperAcquire ==
  /\ sweeper = "acquire"
  /\ LockFree(lock)
  /\ lock' = TRUE
  /\ sweeper' = "body"
  /\ UNCHANGED <<wake_at, now, instance, indexVars, capacity, cache, items, priority_queue, last,
                 pc, call>>

\* _cleanup_expired: the body, the end of the `with` block, and back to sleep
SweeperBody ==
  /\ sweeper = "body"
  /\ cache' = CleanupResult(cache, now)
  /\ lock' = FALSE
  /\ sweeper' = "sleep"
  /\ wake_at' = now + CleanupInterval
  /\ UNCHANGED <<now, instance, indexVars, capacity, items, priority_queue, last, pc,
                 call>>

\* A MemoryCache of positive capacity, its threads not yet in a call.
InitThreads ==
  /\ now = 0
  /\ instance = "MemoryCache"
  /\ capacity \in 1..MaxCapacity
  /\ cache = <<>>
  /\ items = NoItems
  /\ priority_queue = <<>>
  /\ last = NoCall
  /\ IndexAbsent
  /\ ThreadsIdle

NextThreads ==
  \/ \E t \in Threads : Enter(t)
  \/ \E t \in Threads, args \in CacheCalls : Acquire(t, args)
  \/ \E t \in Threads : PutCheck(t)
  \/ \E t \in Threads : PutLoop(t)
  \/ \E t \in Threads : PutAdd(t)
  \/ \E t \in Threads : Body(t)
  \/ SweeperWake
  \/ SweeperAcquire
  \/ SweeperBody
  \/ Advance

SpecThreads == InitThreads /\ [][NextThreads]_vars

\* NThreads writers, each putting its own key once into an empty cache of
\* capacity NThreads, with the cleanup thread running.
WriterValue(t) == IF t % 2 = 1 THEN "v1" ELSE "v2"

InitWriters ==
  /\ now = 0
  /\ instance = "MemoryCache"
  /\ capacity = NThreads
  /\ cache = <<>>
  /\ items = NoItems
  /\ priority_queue = <<>>
  /\ last = NoCall
  /\ IndexAbsent
  /\ ThreadsIdle

NextWriters ==
  \/ \E t \in Threads : pc[t] = "idle" /\ Enter(t)
  \/ \E t \in Threads :
       Acquire(t, Args("put", KeyOrder[t], WriterValue(t), None, 0))
  \/ \E t \in Threads : PutCheck(t)
  \/ \E t \in Threads : PutLoop(t)
  \/ \E t \in Threads : PutAdd(t)
  \/ SweeperWake
  \/ SweeperAcquire
  \/ SweeperBody
  \/ Advance

SpecWriters == InitWriters /\ [][NextWriters]_vars

\* ------------------------------------ MemoryCache, the cleanup thread
\* The cache with its callers and the cleanup thread on a clock that does
\* not pass the end of the cleanup thread's sleep before the thread has run:
\* the thread is scheduled when its sleep ends. Entries are put without a
\* ttl or with a ttl of 0 or 1, early enough for the clock to reach the
\* cleanup tick that follows their expiry.
SweepKeys == {KeyOrder[1], KeyOrder[2]}

SweepCalls(t) ==
  {Args("put", k, v, ttl, 0) :
     k \in SweepKeys, v \in Values,
     ttl \in {x \in {None, <<0>>, <<1>>} :
                x # None => t + x[1] + CleanupInterval <= MaxSweepTime}}
    \cup {Args("get", KeyOrder[1], "", None, 0)}
    \cup {Args("get_stats", "", "", None, 0)}

\* the clock, while the cleanup thread sleeps
Tick ==
  /\ sweeper = "sleep"
  /\ now < wake_at
  /\ now < MaxSweepTime
  /\ now' = now + 1
  /\ UNCHANGED <<instance, indexVars, capacity, cache, items, priority_queue, last,
                 threadVars>>

InitSweeper ==
  /\ now = 0
  /\ instance = "MemoryCache"
  /\ capacity \in 1..MaxCapacity
  /\ cache = <<>>
  /\ items = NoItems
  /\ priority_queue = <<>>
  /\ last = NoCall
  /\ IndexAbsent
  /\ ThreadsIdle

NextSweeper ==
  \/ \E t \in Threads : Enter(t)
  \/ \E t \in Threads, args \in SweepCalls(now) : Acquire(t, args)
  \/ \E t \in Threads : PutCheck(t)
  \/ \E t \in Threads : PutLoop(t)
  \/ \E t \in Threads : PutAdd(t)
  \/ \E t \in Threads : Body(t)
  \/ SweeperWake
  \/ SweeperAcquire
  \/ SweeperBody
  \/ Tick

\* The clock runs; a thread that holds the lock goes on to release it; the
\* cleanup thread wakes, gets the lock whenever it is free again and again,
\* and runs its tick.
FairSweeper ==
  /\ WF_vars(Tick)
  /\ \A t \in Threads :
       WF_vars(PutCheck(t) \/ PutLoop(t) \/ PutAdd(t) \/ Body(t))
  /\ WF_vars(SweeperWake)
  /\ SF_vars(SweeperAcquire)
  /\ WF_vars(SweeperBody)

SpecSweeper == InitSweeper /\ [][NextSweeper]_vars /\ FairSweeper

\* ------------------------------- MemoryCache, every method under the lock
\* Threads calling every public method of a cache of any capacity, 0
\* included, with the cleanup thread, under a lock that is granted to each
\* waiting thread sooner or later. Both keys are put, the first of them
\* also with a ttl; the calls that take a key are made on the first.
LockCalls ==
  {Args("put", KeyOrder[1], v, ttl, 0) : v \in Values, ttl \in {None, <<1>>}}
    \cup {Args("put", KeyOrder[2], v, None, 0) : v \in Values}
    \cup {Args(op, KeyOrder[1], "", None, 0) :
            op \in {"get", "touch", "delete"}}
    \cup {Args("update_ttl", KeyOrder[1], "", ttl, 0) : ttl \in UpdateTTLs}
    \cup {Args(op, "", "", None, 0) : op \in {"clear", "get_stats", "get_keys"}}

InitLock ==
  /\ now = 0
  /\ instance = "MemoryCache"
  /\ capacity \in 0..MaxCapacity
  /\ cache = <<>>
  /\ items = NoItems
  /\ priority_queue = <<>>
  /\ last = NoCall
  /\ IndexAbsent
  /\ ThreadsIdle

NextLock ==
  \/ \E t \in Threads : Enter(t)
  \/ \E t \in Threads, args \in LockCalls : Acquire(t, args)
  \/ \E t \in Threads : PutCheck(t)
  \/ \E t \in Threads : PutLoop(t)
  \/ \E t \in Threads : PutAdd(t)
  \/ \E t \in Threads : Body(t)
  \/ SweeperWake
  \/ SweeperAcquire
  \/ SweeperBody
  \/ Tick

\* The clock runs; a thread that holds the lock goes on to the end of its
\* `with` block; a thread that waits for the lock gets it, if the lock is
\* free again and again.
FairLock ==
  /\ WF_vars(Tick)
  /\ \A t \in Threads :
       /\ WF_vars(PutCheck(t) \/ PutLoop(t) \/ PutAdd(t) \/ Body(t))
       /\ SF_vars(\E args \in LockCalls : Acquire(t, args))
  /\ WF_vars(SweeperWake)
  /\ SF_vars(SweeperAcquire)
  /\ WF_vars(SweeperBody)

SpecLock == InitLock /\ [][NextLock]_vars /\ FairLock

\* ---------------------------------- MemoryCache, the end of its use
\* MemoryCache has no close, stop or __del__, and _cleanup_loop is
\* `while True`. All there is to the end of a cache's use is that its
\* callers let go of it: from then on no thread calls a method.
TornDown == \A t \in Threads : pc[t] = "dropped"

Teardown ==
  /\ instance = "MemoryCache"
  /\ \A t \in Threads : pc[t] \in {"idle", "returned", "raised"}
  /\ pc' = [t \in Threads |-> "dropped"]
  /\ UNCHANGED <<now, instance, indexVars, capacity, cache, items, priority_queue, last,
                 lock, call, sweeper, wake_at>>

NextLifetime ==
  \/ NextSweeper
  \/ Teardown

SpecLifetime == InitSweeper /\ [][NextLifetime]_vars /\ FairSweeper

\* ---------------------------------- MemoryCache, a cleanup tick that fails
\* _cleanup_loop calls _cleanup_expired inside `while True` with no
\* try/except. An exception raised in the tick (by is_expired, while the
\* expired keys are listed) leaves the `with` block, which releases the
\* lock, and then leaves _cleanup_loop: the thread ends. The cache is as it
\* was, and no caller sees the exception, which is raised in the cleanup
\* thread.
SweeperFail ==
  /\ sweeper = "body"
  /\ lock' = FALSE
  /\ sweeper' = "dead"
  /\ UNCHANGED <<now, instance, indexVars, capacity, cache, items, priority_queue, last,
                 pc, call, wake_at>>

NextFaulty ==
  \/ NextSweeper
  \/ SweeperFail

SpecFaulty == InitSweeper /\ [][NextFaulty]_vars /\ FairSweeper

\* ----------------------------------------- WorkingMemory, several threads
\* WorkingMemory has no lock: a thread that calls a method runs its body at
\* once, and the statements of add_item interleave with the calls of the
\* other threads. _evict_items, get_item and update_priority are taken as one
\* step each. The clock stands still and the items are added without a
\* duration.
WmCalls ==
  {Args("add_item", id, v, None, p) :
     id \in Keys, v \in Values, p \in {1, 3}}
    \cup {Args("get_item", id, "", None, 0) : id \in Keys}
    \cup {Args("update_priority", id, "", None, 5) : id \in Keys}

WmCall(t, args) ==
  /\ instance = "WorkingMemory"
  /\ pc[t] \in {"idle", "returned", "raised"}
  /\ args.op = "add_item" =>
       Len(priority_queue) - Cardinality(DOMAIN items) < MaxStale
  /\ (args.op = "get_item" /\ args.key \in DOMAIN items) =>
       items[args.key].access_count < MaxAccess
  /\ call' = [call EXCEPT ![t] = args]
  /\ pc' = [pc EXCEPT ![t] = IF args.op = "add_item" THEN "add_check"
                              ELSE "wm_body"]
  /\ UNCHANGED <<now, instance, indexVars, capacity, cache, items, priority_queue, last,
                 lock, sweeper, wake_at>>

\* add_item, line 24
AddCheck(t) ==
  /\ pc[t] = "add_check"
  /\ pc' = [pc EXCEPT ![t] = IF Cardinality(DOMAIN items) >= capacity
                              THEN "add_evict" ELSE "add_insert"]
  /\ UNCHANGED <<now, instance, indexVars, capacity, cache, items, priority_queue, last,
                 lock, call, sweeper, wake_at>>

\* add_item, line 25
AddEvict(t) ==
  /\ pc[t] = "add_evict"
  /\ LET st == [items |-> items, priority_queue |-> priority_queue,
                evicted |-> {}, expired |-> {}, raised |-> "none"]
         r == evict_items(st, capacity, now)
     IN /\ items' = r.items
        /\ priority_queue' = r.priority_queue
        /\ IF r.raised # "none"
             THEN /\ pc' = [pc EXCEPT ![t] = "raised"]
                  /\ call' = [call EXCEPT ![t] = NoArgs]
             ELSE /\ pc' = [pc EXCEPT ![t] = "add_insert"]
                  /\ UNCHANGED call
  /\ UNCHANGED <<now, instance, indexVars, capacity, cache, last, lock, sweeper, wake_at>>

\* add_item, lines 27-28
AddInsert(t) ==
  /\ pc[t] = "add_insert"
  /\ items' = [x \in DOMAIN items \cup {call[t].key} |->
                 IF x = call[t].key
                   THEN WorkingMemoryItem(call[t].value, call[t].priority,
                                          call[t].ttl, now)
                   ELSE items[x]]
  /\ pc' = [pc EXCEPT ![t] = "add_push"]
  /\ UNCHANGED <<now, instance, indexVars, capacity, cache, priority_queue, last, lock,
                 call, sweeper, wake_at>>

\* add_item, line 29
AddPush(t) ==
  /\ pc[t] = "add_push"
  /\ priority_queue' = heappush(priority_queue,
                                <<0 - call[t].priority, call[t].key>>)
  /\ pc' = [pc EXCEPT ![t] = "returned"]
  /\ call' = [call EXCEPT ![t] = NoArgs]
  /\ UNCHANGED <<now, instance, indexVars, capacity, cache, items, last, lock, sweeper,
                 wake_at>>

\* the body of get_item or update_priority
WmBody(t) ==
  /\ pc[t] = "wm_body"
  /\ LET r == IF call[t].op = "get_item"
                THEN GetItemResult(items, priority_queue, call[t].key, now)
                ELSE UpdatePriorityResult(items, priority_queue, call[t].key,
                                          call[t].priority)
     IN /\ items' = r.items
        /\ priority_queue' = r.priority_queue
  /\ pc' = [pc EXCEPT ![t] = "returned"]
  /\ call' = [call EXCEPT ![t] = NoArgs]
  /\ UNCHANGED <<now, instance, indexVars, capacity, cache, last, lock, sweeper, wake_at>>

\* A WorkingMemory of positive capacity, its threads not yet in a call.
InitWMThreads ==
  /\ now = 0
  /\ instance = "WorkingMemory"
  /\ capacity \in 1..MaxCapacity
  /\ cache = <<>>
  /\ items = NoItems
  /\ priority_queue = <<>>
  /\ last = NoCall
  /\ IndexAbsent
  /\ ThreadsIdle

NextWMThreads ==
  \/ \E t \in Threads, args \in WmCalls : WmCall(t, args)
  \/ \E t \in Threads : AddCheck(t)
  \/ \E t \in Threads : AddEvict(t)
  \/ \E t \in Threads : AddInsert(t)
  \/ \E t \in Threads : AddPush(t)
  \/ \E t \in Threads : WmBody(t)

SpecWMThreads == InitWMThreads /\ [][NextWMThreads]_vars

\* ================================================================= claims
LiveKeys(c, t) == {k \in KeysOf(c) : ~is_expired(EntryOf(c, k), t)}

ExpiredIds(its, t) == {id \in DOMAIN its : item_expired(its[id], t)}

\* C1: for a store built with a positive capacity, the number of stored
\* entries is at most the capacity after every completed operation.
SizeWithinCapacity ==
  capacity > 0 =>
    /\ Len(cache) <= capacity
    /\ Cardinality(DOMAIN items) <= capacity

\* C1 witness: a put into a full cache has completed and the cache is full.
SizeWithinCapacityWitness ==
  /\ capacity = MaxCapacity
  /\ last.op = "put"
  /\ last.evicted # {}
  /\ Len(cache) = capacity

\* C2: a put of a new key into a full cache without expired entries removes
\* exactly one entry, one whose last put/get/touch is the oldest, and keeps
\* every other entry as it is.
LruEviction ==
  (instance = "MemoryCache" /\ capacity > 0 /\ Len(cache) = capacity
     /\ LiveKeys(cache, now) = KeysOf(cache)) =>
    \A k \in Keys \ KeysOf(cache), v \in Values, ttl \in PutTTLs :
      LET r == PutResult(cache, capacity, k, v, ttl, now)
      IN \E victim \in KeysOf(cache) :
           /\ r.raised = "none"
           /\ r.evicted = {victim}
           /\ KeysOf(r.cache) = (KeysOf(cache) \ {victim}) \cup {k}
           /\ \A o \in KeysOf(cache) :
                EntryOf(cache, victim).last_accessed
                  <= EntryOf(cache, o).last_accessed
           /\ \A o \in KeysOf(cache) \ {victim} :
                EntryOf(r.cache, o) = EntryOf(cache, o)

\* C2 witness: capacity 2; put(a); put(b); get(a); put(c) has evicted b and
\* left a and c.
LruEvictionWitness ==
  /\ instance = "MemoryCache"
  /\ capacity = 2
  /\ last.op = "put" /\ last.key = "c" /\ last.evicted = {"b"}
  /\ KeysOf(cache) = {"a", "c"}
  /\ EntryOf(cache, "a").access_count = 1
  /\ EntryOf(cache, "a").created_at < EntryOf(cache, "a").last_accessed
  /\ EntryOf(cache, "a").expires_at = None

\* C3: add_item of a new id to a full working set without expired items
\* removes the item with the lowest priority.
LowestPriorityEvicted ==
  (instance = "WorkingMemory" /\ capacity > 0
     /\ Cardinality(DOMAIN items) = capacity
     /\ ExpiredIds(items, now) = {}) =>
    \A id \in Keys \ DOMAIN items, v \in Values, p \in Priorities,
       d \in Durations :
      LET r == AddItemResult(items, priority_queue, capacity, id, v, p, d, now)
      IN \E victim \in DOMAIN items :
           /\ \A o \in DOMAIN items :
                items[victim].priority <= items[o].priority
           /\ DOMAIN r.items = (DOMAIN items \ {victim}) \cup {id}

\* C4 as claimed: get on an entry put with a positive ttl T returns its value
\* up to put-time + T and None after it, with or without a cleanup tick.
ExpiryByPutTtl ==
  \A k \in KeysOf(cache) :
    LET e == EntryOf(cache, k)
        swept == CleanupResult(cache, now)
        expected == IF now <= e.created_at + e.ttl[1] THEN <<e.data>> ELSE None
    IN (e.ttl # None /\ e.ttl[1] > 0) =>
         /\ GetResult(cache, k, now).ret = expected
         /\ GetResult(swept, k, now).ret = expected

\* C4 as amended: the same for an entry whose expiry update_ttl has not
\* changed since the put.
ExpiryByPutTtlUnlessUpdated ==
  \A k \in KeysOf(cache) :
    LET e == EntryOf(cache, k)
        swept == CleanupResult(cache, now)
        expected == IF now <= e.created_at + e.ttl[1] THEN <<e.data>> ELSE None
    IN (e.ttl # None /\ e.ttl[1] > 0
          /\ e.expires_at = <<e.created_at + e.ttl[1]>>) =>
         /\ GetResult(cache, k, now).ret = expected
         /\ GetResult(swept, k, now).ret = expected

\* C4 witness: a get at exactly put-time + T has returned the value, after a
\* cleanup tick or not.
ExpiryByPutTtlWitness ==
  /\ instance = "MemoryCache"
  /\ last.op = "get" /\ last.path = "live"
  /\ Contains(cache, last.key)
  /\ LET e == EntryOf(cache, last.key)
     IN /\ e.ttl = <<1>>
        /\ e.expires_at = <<now>>
        /\ e.created_at + 1 = now
        /\ last.ret = <<e.data>>

\* C5: a put of a new key into a full cache that holds an expired entry
\* removes no live entry.
ExpiredReclaimedFirst ==
  (instance = "MemoryCache" /\ capacity > 0 /\ Len(cache) = capacity
     /\ LiveKeys(cache, now) # KeysOf(cache)) =>
    \A k \in Keys \ KeysOf(cache), v \in Values, ttl \in PutTTLs :
      LiveKeys(cache, now)
        \subseteq KeysOf(PutResult(cache, capacity, k, v, ttl, now).cache)

\* C6: add_item on a full working set that holds an expired item removes
\* every expired item and no live item, whatever the priorities.
ExpiredItemsEvictedFirst ==
  (instance = "WorkingMemory" /\ capacity > 0
     /\ Cardinality(DOMAIN items) = capacity
     /\ ExpiredIds(items, now) # {}) =>
    \A id \in Keys, v \in Values, p \in Priorities, d \in Durations :
      LET r == AddItemResult(items, priority_queue, capacity, id, v, p, d, now)
      IN /\ r.raised = "none"
         /\ r.expired = ExpiredIds(items, now)
         /\ r.evicted = {}
         /\ DOMAIN r.items = (DOMAIN items \ ExpiredIds(items, now)) \cup {id}
         /\ \A o \in DOMAIN items \ (ExpiredIds(items, now) \cup {id}) :
              r.items[o] = items[o]

\* C6 witness: an add_item on a full working set has removed an expired item
\* of higher priority and kept the live one.
ExpiredItemsEvictedFirstWitness ==
  /\ instance = "WorkingMemory"
  /\ capacity = 2
  /\ last.op = "add_item" /\ last.expired # {} /\ last.evicted = {}
  /\ Cardinality(DOMAIN items) = 2
  /\ \E o \in DOMAIN items \ {last.key} :
       /\ items[o].created_at < now
       /\ items[o].priority = 1

\* C7: when NThreads threads each put their own key into an empty cache of
\* capacity NThreads while the cleanup thread runs, no put raises or is left
\* unable to go on, and once all have returned every key is present with the
\* value written for it.
WritersProgress ==
  \/ \E t \in Threads : Acquire(t, Args("put", KeyOrder[t], WriterValue(t), None, 0))
  \/ \E t \in Threads : Enter(t) \/ PutCheck(t) \/ PutLoop(t) \/ PutAdd(t)
  \/ SweeperBody

WritersAllPresent ==
  /\ \A t \in Threads : pc[t] # "raised"
  /\ (\E t \in Threads : pc[t] # "returned") => ENABLED WritersProgress
  /\ (\A t \in Threads : pc[t] = "returned") =>
       /\ Len(cache) = NThreads
       /\ \A t \in Threads :
            /\ Contains(cache, KeyOrder[t])
            /\ EntryOf(cache, KeyOrder[t]).data = WriterValue(t)

\* C7 witness: all writers have returned, the second one's put first, after
\* the clock moved and with the cleanup thread waiting for its next tick.
WritersAllPresentWitness ==
  /\ \A t \in Threads : pc[t] = "returned"
  /\ Len(cache) = NThreads
  /\ cache[1].key = KeyOrder[2]
  /\ cache[1].entry.created_at < cache[Len(cache)].entry.created_at
  /\ sweeper = "acquire"

\* C8: no method body and no cleanup tick runs while the cache holds more
\* than capacity entries, or while another thread's put has removed an entry
\* and not yet inserted its own.
Holding(t) == pc[t] \in {"put_check", "put_loop", "put_add", "body"}

MidPut(t) == pc[t] \in {"put_loop", "put_add"} /\ call[t].popped # {}

AtomicPut ==
  /\ Len(cache) <= capacity
  /\ \A t \in Threads :
       Holding(t) => \A u \in Threads \ {t} : ~Holding(u) /\ ~MidPut(u)
  /\ sweeper = "body" => \A u \in Threads : ~Holding(u) /\ ~MidPut(u)

\* C8 witness: a put has evicted an entry and not yet inserted its own, while
\* another caller and the cleanup thread wait for the lock.
AtomicPutWitness ==
  /\ pc[1] = "put_add" /\ call[1].popped # {}
  /\ call[1].key \notin call[1].popped
  /\ Len(cache) < capacity
  /\ pc[2] = "acquire"
  /\ sweeper = "acquire"

\* C9: in a working memory used by several threads the working set never
\* holds more than capacity items, no call fails, and no call is in a method
\* body while another thread's add_item has evicted or inserted and not yet
\* pushed its pair on the priority queue.
InMethod(t) ==
  pc[t] \in {"add_check", "add_evict", "add_insert", "add_push", "wm_body"}

WorkingMemorySerialized ==
  /\ Cardinality(DOMAIN items) <= capacity
  /\ \A t \in Threads : pc[t] # "raised"
  /\ \A t \in Threads :
       InMethod(t) => \A u \in Threads \ {t} : pc[u] # "add_push"

\* The cleanup tick that follows the time t by at most a cleanup interval has
\* not yet run to its end.
BeforeSweepOf(t) ==
  \/ now < t + CleanupInterval
  \/ now = t + CleanupInterval /\ wake_at <= now

\* C10: an entry put with a ttl and not read or touched since is, once the
\* cleanup tick that follows its expiry by at most a cleanup interval has
\* run, no longer among the total_items of get_stats.
SweptAfterPutTtl ==
  get_stats(cache, capacity, now).total_items =
    Cardinality({i \in 1..Len(cache) :
                   LET e == cache[i].entry
                   IN (e.ttl # None /\ e.access_count = 0) =>
                        BeforeSweepOf(e.created_at + e.ttl[1])})

\* The same for the entries that have an expiry, read or not.
SweptAfterExpiry ==
  get_stats(cache, capacity, now).total_items =
    Cardinality({i \in 1..Len(cache) :
                   LET e == cache[i].entry
                   IN e.expires_at # None => BeforeSweepOf(e.expires_at[1])})

\* An expired entry is removed in the end.
ExpiredEntryRemoved ==
  \A k \in Keys :
    (Contains(cache, k) /\ is_expired(EntryOf(cache, k), now))
      ~> ~(Contains(cache, k) /\ is_expired(EntryOf(cache, k), now))

\* The cleanup thread is about to remove, a cleanup interval after its
\* expiry, an entry that no get has read.
SweptAfterExpiryWitness ==
  /\ sweeper = "body"
  /\ \E i \in 1..Len(cache) :
       /\ cache[i].entry.ttl = <<1>>
       /\ cache[i].entry.access_count = 0
       /\ cache[i].entry.expires_at = <<now - CleanupInterval>>

\* The entries of c1 other than that of k are those of c2 other than that of
\* k, each as it was and in the same order.
OthersKept(c1, c2, k) ==
  LET others == KeysOf(c1) \ {k}
  IN /\ KeysOf(c2) \ {k} = others
     /\ \A o \in others : EntryOf(c2, o) = EntryOf(c1, o)
     /\ \A x, y \in others :
          (IndexOf(c1, x) < IndexOf(c1, y)) <=> (IndexOf(c2, x) < IndexOf(c2, y))

\* C11: delete of an absent key returns False and changes nothing, again and
\* again; delete of a present key, expired or not, returns True and removes
\* that key only, and a second delete of it returns False.
DeleteIdempotent ==
  instance = "MemoryCache" =>
    \A k \in Keys :
      LET r == DeleteResult(cache, k)
          r2 == DeleteResult(r.cache, k)
      IN /\ r2.ret = <<FALSE>>
         /\ r2.cache = r.cache
         /\ IF Contains(cache, k)
              THEN /\ r.ret = <<TRUE>>
                   /\ ~Contains(r.cache, k)
                   /\ Len(r.cache) = Len(cache) - 1
                   /\ OthersKept(cache, r.cache, k)
              ELSE /\ r.ret = <<FALSE>>
                   /\ r.cache = cache

\* C11 witness: a delete has removed an expired entry that was not the first
\* and left the other entry.
DeleteIdempotentWitness ==
  /\ last.op = "delete" /\ last.ret = <<TRUE>>
  /\ ~Contains(cache, last.key)
  /\ Len(cache) = 1
  /\ capacity = 2
  /\ cache[1].entry.created_at < now
  /\ is_expired(cache[1].entry, now)

\* new_ttl arguments of update_ttl the claims range over
NewTTLs == {None, <<0>>, <<1>>, <<-1>>}

\* C12: update_ttl on a present key returns True and sets the entry's
\* expires_at to now + new_ttl, or to none for None, and changes nothing else
\* of the entry, its place in the order or the other entries; on an absent
\* key it returns False and changes nothing.
UpdateTtlFrame ==
  instance = "MemoryCache" =>
    \A k \in Keys, new_ttl \in NewTTLs :
      LET r == UpdateTtlResult(cache, k, new_ttl, now)
      IN IF Contains(cache, k)
           THEN LET e == EntryOf(cache, k)
                    e2 == EntryOf(r.cache, k)
                IN /\ r.ret = <<TRUE>>
                   /\ Len(r.cache) = Len(cache)
                   /\ IndexOf(r.cache, k) = IndexOf(cache, k)
                   /\ OthersKept(cache, r.cache, k)
                   /\ e2.expires_at =
                        IF new_ttl = None THEN None ELSE <<now + new_ttl[1]>>
                   /\ e2.data = e.data
                   /\ e2.access_count = e.access_count
                   /\ e2.last_accessed = e.last_accessed
                   /\ e2.created_at = e.created_at
           ELSE /\ r.ret = <<FALSE>>
                /\ r.cache = cache

\* C12 witness: update_ttl(k, None) has cleared the expiry of an entry put
\* with a ttl and read once, which is still the first of two.
UpdateTtlFrameWitness ==
  /\ last.op = "update_ttl" /\ last.ret = <<TRUE>>
  /\ Len(cache) = 2
  /\ cache[1].key = last.key
  /\ cache[1].entry.ttl = <<1>>
  /\ cache[1].entry.expires_at = None
  /\ cache[1].entry.access_count = 1

\* C13: a put on a present key, and an add_item with a present item_id,
\* leave the set of the other keys and the size of the store as they were,
\* also when the store is full.
PutOnPresentKeepsOthers ==
  /\ instance = "MemoryCache" =>
       \A k \in KeysOf(cache), v \in Values, ttl \in PutTTLs :
         LET r == PutResult(cache, capacity, k, v, ttl, now)
         IN /\ r.raised = "none"
            /\ KeysOf(r.cache) = KeysOf(cache)
            /\ Len(r.cache) = Len(cache)
  /\ instance = "WorkingMemory" =>
       \A id \in DOMAIN items, v \in Values, p \in Priorities, d \in Durations :
         LET r == AddItemResult(items, priority_queue, capacity, id, v, p, d,
                                now)
         IN /\ r.raised = "none"
            /\ DOMAIN r.items = DOMAIN items

\* C14: a put on a present key leaves the key with the new value, an
\* access_count of 0, created_at and last_accessed at the time of the put, an
\* expiry that comes from the new ttl alone (none for None), and as the most
\* recently used key.
PutOverwrites ==
  instance = "MemoryCache" =>
    \A k \in KeysOf(cache), v \in Values \cup {"v2"},
       ttl \in PutTTLs \cup {<<0>>} :
      LET r == PutResult(cache, capacity, k, v, ttl, now)
          fresh == PutResult(DelKey(cache, k), capacity, k, v, ttl, now)
          e == EntryOf(r.cache, k)
      IN /\ r.raised = "none"
         /\ Contains(r.cache, k)
         /\ r.cache[Len(r.cache)].key = k
         /\ e.data = v
         /\ e.access_count = 0
         /\ e.created_at = now
         /\ e.last_accessed = now
         /\ ttl = None => e.expires_at = None
         /\ (ttl # None /\ ttl[1] # 0) => e.expires_at = <<now + ttl[1]>>
         /\ e = EntryOf(fresh.cache, k)

\* C14 witness: a put without ttl on a present key has completed later than
\* the put of the other entry; the key is the last of two and has no expiry.
PutOverwritesWitness ==
  /\ last.op = "put" /\ last.path = "present"
  /\ Len(cache) = 2
  /\ cache[2].key = last.key
  /\ cache[2].entry.created_at = now
  /\ cache[2].entry.expires_at = None
  /\ cache[1].entry.created_at < now
  /\ cache[1].entry.access_count = 1

\* C15: get returns None for an absent key and changes nothing; for an
\* expired key it returns None and removes that key only; for a live key it
\* returns the value, adds one to access_count, sets last_accessed to now and
\* makes the key the most recently used, and changes nothing else.
GetContract ==
  instance = "MemoryCache" =>
    \A k \in Keys :
      LET r == GetResult(cache, k, now)
      IN IF ~Contains(cache, k)
           THEN r.ret = None /\ r.cache = cache
           ELSE LET e == EntryOf(cache, k)
                IN IF e.expires_at # None /\ now > e.expires_at[1]
                     THEN /\ r.ret = None
                          /\ ~Contains(r.cache, k)
                          /\ Len(r.cache) = Len(cache) - 1
                          /\ OthersKept(cache, r.cache, k)
                     ELSE /\ r.ret = <<e.data>>
                          /\ Len(r.cache) = Len(cache)
                          /\ r.cache[Len(r.cache)].key = k
                          /\ OthersKept(cache, r.cache, k)
                          /\ EntryOf(r.cache, k) =
                               [e EXCEPT !.access_count = e.access_count + 1,
                                         !.last_accessed = now]

\* C15 witness: a get has found its key expired, returned None and removed
\* it, leaving the other entry, which has been read before.
GetContractWitness ==
  /\ last.op = "get" /\ last.path = "expired" /\ last.ret = None
  /\ ~Contains(cache, last.key)
  /\ Len(cache) = 1
  /\ cache[1].entry.access_count = 1

\* C16: from the same cache at the same time touch and get leave the same
\* cache, and touch returns True exactly when get returns the entry's value:
\* when the key is present and not expired.
TouchAsGet ==
  instance = "MemoryCache" =>
    \A k \in Keys :
      LET g == GetResult(cache, k, now)
          th == TouchResult(cache, k, now)
          live == Contains(cache, k) /\ ~is_expired(EntryOf(cache, k), now)
      IN /\ th.cache = g.cache
         /\ th.ret \in {<<TRUE>>, <<FALSE>>}
         /\ th.ret = <<TRUE>> <=> live
         /\ live => g.ret = <<EntryOf(cache, k).data>>
         /\ ~live => g.ret = None

\* C16 witness: a touch has returned True and moved its entry behind an
\* entry that was put later.
TouchAsGetWitness ==
  /\ last.op = "touch" /\ last.ret = <<TRUE>>
  /\ Len(cache) = 2
  /\ cache[2].key = last.key
  /\ cache[2].entry.access_count = 1
  /\ cache[2].entry.last_accessed = now
  /\ cache[2].entry.created_at < cache[1].entry.created_at

\* C17: a cleanup tick removes the entries that are expired at its time and
\* no other: after it get_stats counts no expired entry, and the entries that
\* were not expired are there as they were, in the same order.
CleanupExact ==
  instance = "MemoryCache" =>
    LET r == CleanupResult(cache, now)
        expired == {k \in KeysOf(cache) :
                      /\ EntryOf(cache, k).expires_at # None
                      /\ now > EntryOf(cache, k).expires_at[1]}
    IN /\ KeysOf(r) = KeysOf(cache) \ expired
       /\ Len(r) = Len(cache) - Cardinality(expired)
       /\ get_stats(r, capacity, now).expired_items = 0
       /\ \A k \in KeysOf(cache) \ expired : EntryOf(r, k) = EntryOf(cache, k)
       /\ \A x, y \in KeysOf(cache) \ expired :
            (IndexOf(cache, x) < IndexOf(cache, y))
              <=> (IndexOf(r, x) < IndexOf(r, y))

\* C17 witness: a cleanup tick has removed an expired entry and left an
\* entry that has an expiry and has been read.
CleanupExactWitness ==
  /\ last.op = "cleanup" /\ last.expired # {}
  /\ Len(cache) = 1
  /\ cache[1].entry.expires_at # None
  /\ cache[1].entry.access_count = 1

\* C18: get_keys returns the keys that are stored and not expired, each
\* once; get_stats returns a record whose total_items is the number of
\* stored entries and whose expired_items is the number of stored expired
\* entries, so that len(get_keys()) = total_items - expired_items.
StatsAndKeys ==
  instance = "MemoryCache" =>
    LET keys == get_keys(cache, now)
        st == get_stats(cache, capacity, now)
        expired == {k \in KeysOf(cache) :
                      /\ EntryOf(cache, k).expires_at # None
                      /\ now > EntryOf(cache, k).expires_at[1]}
    IN /\ {keys[i] : i \in 1..Len(keys)} = KeysOf(cache) \ expired
       /\ Len(keys) = Cardinality(KeysOf(cache) \ expired)
       /\ st.total_items = Cardinality(KeysOf(cache))
       /\ st.expired_items = Cardinality(expired)
       /\ Len(keys) = st.total_items - st.expired_items
       /\ last.op = "get_stats" =>
            /\ last.raised = "none"
            /\ last.ret # None
            /\ last.ret[1].total_items = Cardinality(KeysOf(cache))

\* The same for a cache of positive capacity.
StatsAndKeysPositive == capacity > 0 => StatsAndKeys

\* get_stats and get_keys leave the cache as it is.
StatsAndKeysFrame == [][(GetStats \/ GetKeys) => cache' = cache]_vars

\* C19: no put or add_item runs against a store of capacity 0 or less, as
\* no such store is constructed.
ConstructionRejectsNonPositive ==
  last.op \in {"put", "add_item"} => capacity > 0

\* C20: once the cache is torn down the cleanup thread has stopped: it wakes,
\* takes the lock and runs a tick no more.
SweeperStopsAtTeardown ==
  [][TornDown => ~(SweeperWake \/ SweeperAcquire \/ SweeperBody)]_vars

\* C21: a failure inside one cleanup tick is caught inside the cleanup loop:
\* the tick is skipped, the cleanup thread sleeps again and runs the next
\* tick one interval later, and no caller's call is touched by the failure.
TickFailureCaught ==
  [][SweeperFail => /\ sweeper' = "sleep"
                    /\ wake_at' = now + CleanupInterval
                    /\ pc' = pc]_vars

\* the part of C21 that holds: the failed tick releases the lock and raises
\* nothing in a caller
TickFailureKeptFromCallers ==
  [][SweeperFail => lock' = FALSE /\ pc' = pc /\ cache' = cache]_vars

\* and after it no tick runs any more
SweeperDeadForEver == [][sweeper = "dead" => sweeper' = "dead"]_vars

\* C22: add_memory with a vector whose length differs from the dimension of
\* the index raises an error and leaves the index unchanged: no vector is
\* added, and id_to_vector and id_to_metadata are as before the call.
DimensionMismatchRejected ==
  instance = "MemoryIndex" =>
    /\ \A memory_id \in MemoryIds, vector \in Vectors, metadata \in Metadata :
         Len(vector) # dimension =>
           LET r == AddMemoryResult(dimension, index, id_to_vector,
                                    id_to_metadata, memory_id, vector, metadata)
           IN /\ r.raised # "none"
              /\ r.index = index
              /\ r.id_to_vector = id_to_vector
              /\ r.id_to_metadata = id_to_metadata
    /\ \A i \in 1..Len(index) : Len(index[i]) = dimension
    /\ \A id \in DOMAIN id_to_vector : Len(id_to_vector[id]) = dimension
    /\ DOMAIN id_to_metadata = DOMAIN id_to_vector

\* a call with a vector too long has failed on an index that holds vectors
DimensionMismatchRejectedWitness ==
  /\ instance = "MemoryIndex"
  /\ last.op = "add_memory"
  /\ last.raised = "ValueError"
  /\ Len(index) = MaxVectors
  /\ Cardinality(DOMAIN id_to_vector) = 2

\* C23: add_item of a new id to a full working set without expired items, in
\* which several items share the lowest priority, removes the one of them
\* with the oldest created_at.
OldestOfLowestEvicted ==
  (instance = "WorkingMemory" /\ capacity > 0
     /\ Cardinality(DOMAIN items) = capacity
     /\ ExpiredIds(items, now) = {}) =>
    LET lowest == {o \in DOMAIN items :
                     \A x \in DOMAIN items :
                       items[o].priority <= items[x].priority}
    IN Cardinality(lowest) > 1 =>
         \A id \in Keys \ DOMAIN items, v \in Values, p \in Priorities,
            d \in Durations :
           LET r == AddItemResult(items, priority_queue, capacity, id, v, p,
                                  d, now)
           IN \E victim \in lowest :
                /\ \A o \in lowest :
                     items[victim].created_at <= items[o].created_at
                /\ DOMAIN r.items = (DOMAIN items \ {victim}) \cup {id}

\* C24: every stored entry or item that has an expiry has
\* expires_at >= created_at, whatever ttl the calls of put and update_ttl
\* were given, negative integers included.
ExpiryNotBeforeCreation ==
  /\ \A k \in KeysOf(cache) :
       LET e == EntryOf(cache, k)
       IN e.expires_at # None => e.expires_at[1] >= e.created_at
  /\ \A id \in DOMAIN items :
       items[id].expires_at # None =>
         items[id].expires_at[1] >= items[id].created_at

\* the part of C24 that holds: with a ttl that is not negative, neither put
\* nor update_ttl gives an entry an expiry before its creation
ExpiryNotBeforeCreationForNonNegativeTtl ==
  (instance = "MemoryCache" /\ capacity > 0 /\ ExpiryNotBeforeCreation) =>
    \A k \in Keys, v \in Values, ttl \in {None, <<0>>, <<1>>} :
      LET p == PutResult(cache, capacity, k, v, ttl, now).cache
          u == UpdateTtlResult(cache, k, ttl, now).cache
      IN /\ \A x \in KeysOf(p) :
              EntryOf(p, x).expires_at # None =>
                EntryOf(p, x).expires_at[1] >= EntryOf(p, x).created_at
         /\ \A x \in KeysOf(u) :
              EntryOf(u, x).expires_at # None =>
                EntryOf(u, x).expires_at[1] >= EntryOf(u, x).created_at

\* C25: an entry of the cache that has expired is not live again, and so its
\* value is not returned by a later get, unless its key is put again: no
\* operation other than put makes an expired entry live.
ExpiredStaysExpired ==
  [][\A k \in Keys :
       (/\ Contains(cache, k)
        /\ is_expired(EntryOf(cache, k), now)
        /\ Contains(cache', k)
        /\ ~is_expired(EntryOf(cache', k), now'))
         => (last'.op = "put" /\ last'.key = k)]_vars

\* the part of C25 that holds: get, touch, delete, clear, the cleanup, the
\* statistics and the clock leave no expired entry live
ExpiredStaysExpiredButForUpdateTtl ==
  [][\A k \in Keys :
       (/\ Contains(cache, k)
        /\ is_expired(EntryOf(cache, k), now)
        /\ Contains(cache', k)
        /\ ~is_expired(EntryOf(cache', k), now'))
         => (last'.op \in {"put", "update_ttl"} /\ last'.key = k)]_vars

\* C26: put(k, v, ttl=t) gives the entry the expiry that put(k, v) followed
\* at once by update_ttl(k, t) gives it, for every integer t >= 0, t = 0
\* included: expires_at = now + t either way.
PutTtlAsUpdateTtl ==
  (instance = "MemoryCache" /\ capacity > 0) =>
    \A k \in Keys, v \in Values, t \in 0..1 :
      LET direct == PutResult(cache, capacity, k, v, <<t>>, now).cache
          plain == PutResult(cache, capacity, k, v, None, now).cache
          updated == UpdateTtlResult(plain, k, <<t>>, now).cache
      IN /\ EntryOf(direct, k).expires_at = <<now + t>>
         /\ EntryOf(updated, k).expires_at = <<now + t>>

\* the part of C26 that holds: the two paths agree for a positive ttl, and
\* update_ttl gives now + t for t = 0 as well
PutTtlAsUpdateTtlPositive ==
  (instance = "MemoryCache" /\ capacity > 0) =>
    \A k \in Keys, v \in Values, t \in 0..1 :
      LET direct == PutResult(cache, capacity, k, v, <<t>>, now).cache
          plain == PutResult(cache, capacity, k, v, None, now).cache
          updated == UpdateTtlResult(plain, k, <<t>>, now).cache
      IN /\ t > 0 => EntryOf(direct, k).expires_at = <<now + t>>
         /\ t = 0 => EntryOf(direct, k).expires_at = None
         /\ EntryOf(updated, k).expires_at = <<now + t>>
         /\ KeysOf(direct) = KeysOf(updated)

\* C27: after every completed operation of WorkingMemory, priority_queue
\* holds exactly one pair <<-priority, item_id>> for each item of items,
\* with the item's current priority, and no other pair.
PairsOf(its) == {<<0 - its[id].priority, id>> : id \in DOMAIN its}

QueueMatchesItems ==
  instance = "WorkingMemory" =>
    /\ Len(priority_queue) = Cardinality(DOMAIN items)
    /\ {priority_queue[i] : i \in 1..Len(priority_queue)} = PairsOf(items)

\* the part of C27 that holds: every item has its pair, of its current
\* priority, and the pairs are in heap order
EveryItemHasItsPair ==
  instance = "WorkingMemory" =>
    /\ PairsOf(items) \subseteq
         {priority_queue[i] : i \in 1..Len(priority_queue)}
    /\ \A i \in 1..Len(priority_queue), j \in 1..Len(priority_queue) :
         i < j => ~TupleLess(priority_queue[j], priority_queue[i])

\* C28: MemoryCache is free of deadlock. The lock is held by exactly the one
\* thread, caller or cleanup thread, that is inside a `with self.lock:` block,
\* and by no thread that has returned or raised; and every call, and every
\* cleanup tick, that waits for the lock gets it and comes to its end when
\* the lock is granted fairly.
InWith(t) == pc[t] \in {"put_check", "put_loop", "put_add", "body"}

Holders ==
  Cardinality({t \in Threads : InWith(t)}) + (IF sweeper = "body" THEN 1 ELSE 0)

LockHeldInsideWithOnly == Holders = (IF lock THEN 1 ELSE 0)

DeadlockFree ==
  /\ []LockHeldInsideWithOnly
  /\ \A t \in Threads : (pc[t] = "acquire") ~> (pc[t] \in {"returned", "raised"})
  /\ (sweeper = "acquire") ~> (sweeper = "sleep")

\* a call has returned while a second caller is inside its `with` block and
\* the cleanup thread waits for the lock
DeadlockFreeWitness ==
  /\ \E t \in Threads : pc[t] = "returned"
  /\ \E t \in Threads : pc[t] = "body" /\ call[t].op = "clear"
  /\ sweeper = "acquire"
  /\ lock
  /\ cache # <<>>

====
